---- MODULE Spec2Model ----
(***************************************************************************)
(* Pivot-table composition of excelize (pivotTable.go): range              *)
(* normalisation, field classification, cache and table definition         *)
(* synthesis, and the allocation of the three identifier spaces            *)
(* (pivot-table sequence number, pivot-cache sequence number, workbook     *)
(* pivot-cache registry ID).                                               *)
(*                                                                         *)
(* Go strings whose characters matter (range references, aggregation       *)
(* names, display names) are sequences of one-character strings; strings   *)
(* that are only compared for equality (header names) are TLA+ strings.    *)
(***************************************************************************)
EXTENDS Integers, Sequences, FiniteSets, TLC

VARIABLES
    Pkg,            \* f.Pkg: part name -> content
    Relationships,  \* f.Relationships: rels path -> sequence of relationships
    ContentTypes,   \* content-type overrides registered so far
    PivotCaches,    \* wb.PivotCaches.PivotCache: sequence of [CacheID, RID]
    proc,           \* per invocation of AddPivotTable: position and locals
    hist,           \* completed calls, in order of completion
    opened,         \* the document as it was before the first call
    rangeTest,      \* adjustRange applied to the corner orderings of a box
    subtotalTest    \* getPivotTableFieldsSubtotal applied to a Data list

vars == <<Pkg, Relationships, ContentTypes, PivotCaches, proc, hist, opened,
          rangeTest, subtotalTest>>

docVars == <<Pkg, Relationships, ContentTypes, PivotCaches>>

-----------------------------------------------------------------------------
(* Bounds of the model. *)

MaxCol == 3
MaxRow == 3
MaxEntries == 3
MaxCalls == 2
MaxSubtotals == 2

-----------------------------------------------------------------------------
(* Strings as sequences of characters. *)

None == "none"

Min(a, b) == IF a < b THEN a ELSE b

Max(a, b) == IF a < b THEN b ELSE a

Upper == <<"A", "B", "C", "D", "E", "F", "G", "H", "I", "J", "K", "L", "M",
           "N", "O", "P", "Q", "R", "S", "T", "U", "V", "W", "X", "Y", "Z">>

Lower == <<"a", "b", "c", "d", "e", "f", "g", "h", "i", "j", "k", "l", "m",
           "n", "o", "p", "q", "r", "s", "t", "u", "v", "w", "x", "y", "z">>

Digits == <<"0", "1", "2", "3", "4", "5", "6", "7", "8", "9">>

IndexOf(seq, c) ==
    IF \E i \in DOMAIN seq : seq[i] = c
    THEN CHOOSE i \in DOMAIN seq : seq[i] = c /\ \A j \in 1..(i - 1) : seq[j] # c
    ELSE 0

\* strings.Split(s, sep) for a one-character separator.
RECURSIVE Split(_, _)
Split(s, sep) ==
    LET i == IndexOf(s, sep)
    IN  IF i = 0 THEN <<s>>
        ELSE <<SubSeq(s, 1, i - 1)>> \o Split(SubSeq(s, i + 1, Len(s)), sep)

\* strings.ReplaceAll(s, c, "") for a one-character c.
RECURSIVE Remove(_, _)
Remove(s, c) ==
    IF s = <<>> THEN <<>>
    ELSE IF Head(s) = c THEN Remove(Tail(s), c)
    ELSE <<Head(s)>> \o Remove(Tail(s), c)

\* strconv.Itoa for n >= 0.
RECURSIVE Itoa(_)
Itoa(n) ==
    IF n < 10 THEN <<Digits[n + 1]>>
    ELSE Itoa(n \div 10) \o <<Digits[(n % 10) + 1]>>

\* strconv.Atoi of a digit string; -1 when s is empty or holds a non-digit.
RECURSIVE Atoi(_)
Atoi(s) ==
    IF s = <<>> THEN -1
    ELSE LET d == IndexOf(Digits, s[Len(s)])
         IN  IF d = 0 THEN -1
             ELSE IF Len(s) = 1 THEN d - 1
             ELSE LET hi == Atoi(SubSeq(s, 1, Len(s) - 1))
                  IN  IF hi < 0 THEN -1 ELSE hi * 10 + (d - 1)

\* ColumnNumberToName: 1 -> A, 26 -> Z, 27 -> AA.
RECURSIVE ColumnNumberToName(_)
ColumnNumberToName(n) ==
    IF n <= 26 THEN <<Upper[n]>>
    ELSE ColumnNumberToName((n - 1) \div 26) \o <<Upper[((n - 1) % 26) + 1]>>

\* ColumnNameToNumber; 0 when s is empty or holds a non-letter.
RECURSIVE ColumnNameToNumber(_)
ColumnNameToNumber(s) ==
    IF s = <<>> THEN 0
    ELSE LET u == IndexOf(Upper, s[Len(s)])
             l == IndexOf(Lower, s[Len(s)])
             d == IF u # 0 THEN u ELSE l
         IN  IF d = 0 THEN 0
             ELSE IF Len(s) = 1 THEN d
             ELSE LET hi == ColumnNameToNumber(SubSeq(s, 1, Len(s) - 1))
                  IN  IF hi = 0 THEN 0 ELSE hi * 26 + d

CoordinatesToCellName(col, row) == ColumnNumberToName(col) \o Itoa(row)

IsLetter(c) == IndexOf(Upper, c) # 0 \/ IndexOf(Lower, c) # 0

\* Length of the leading run of letters of a cell name.
RECURSIVE LetterPrefix(_)
LetterPrefix(s) ==
    IF s = <<>> \/ ~IsLetter(Head(s)) THEN 0 ELSE 1 + LetterPrefix(Tail(s))

\* CellNameToCoordinates: <<col, row>>, or <<>> for a malformed cell name.
CellNameToCoordinates(cell) ==
    LET parse(k) ==
            LET check(col, row) ==
                    IF k = 0 \/ col = 0 \/ row < 1 THEN <<>> ELSE <<col, row>>
            IN  check(ColumnNameToNumber(SubSeq(cell, 1, k)),
                      Atoi(SubSeq(cell, k + 1, Len(cell))))
    IN  parse(LetterPrefix(cell))

ErrParameterRequired == "ErrParameterRequired"
ErrParameterInvalid == "ErrParameterInvalid"
ErrCellName == "ErrInvalidCellName"

\* areaRefToCoordinates: "A1:E31" -> <<1, 1, 5, 31>>.
areaRefToCoordinates(ref) ==
    LET cells(rng) ==
            IF Len(rng) < 2 THEN [coordinates |-> <<>>, err |-> ErrParameterInvalid]
            ELSE LET join(a, b) ==
                         IF a = <<>> \/ b = <<>>
                         THEN [coordinates |-> <<>>, err |-> ErrCellName]
                         ELSE [coordinates |-> a \o b, err |-> None]
                 IN  join(CellNameToCoordinates(rng[1]), CellNameToCoordinates(rng[2]))
    IN  cells(Split(Remove(ref, "$"), ":"))

\* A joint swap of both axes when the first corner lies right of the second.
adjustRange_jointSwap(rangeStr) ==
    LET correct(sheet, c) ==
            IF c[1] = c[3] /\ c[2] = c[4]
            THEN [sheet |-> sheet, coordinates |-> <<>>, err |-> ErrParameterInvalid]
            ELSE IF c[3] < c[1]
            THEN [sheet |-> sheet, err |-> None,
                  coordinates |-> <<c[3], c[4], c[1], c[2]>>]
            ELSE [sheet |-> sheet, err |-> None, coordinates |-> c]
        area(sheet, r) ==
            IF r.err # None
            THEN [sheet |-> sheet, coordinates |-> <<>>, err |-> r.err]
            ELSE correct(sheet, r.coordinates)
        split(rng) ==
            IF Len(rng) # 2
            THEN [sheet |-> <<>>, coordinates |-> <<>>, err |-> ErrParameterInvalid]
            ELSE area(rng[1], areaRefToCoordinates(Remove(rng[2], "$")))
    IN  IF Len(rangeStr) < 1
        THEN [sheet |-> <<>>, coordinates |-> <<>>, err |-> ErrParameterRequired]
        ELSE split(Split(rangeStr, "!"))

\* adjustRange: Sheet1!$E$31:$A$1 -> Sheet1, <<1, 1, 5, 31>>.
adjustRange(rangeStr) ==
    LET correct(sheet, c) ==
            IF c[1] = c[3] /\ c[2] = c[4]
            THEN [sheet |-> sheet, coordinates |-> <<>>, err |-> ErrParameterInvalid]
            ELSE [sheet |-> sheet, err |-> None,
                  coordinates |-> <<IF c[3] < c[1] THEN c[3] ELSE c[1],
                                    IF c[4] < c[2] THEN c[4] ELSE c[2],
                                    IF c[3] < c[1] THEN c[1] ELSE c[3],
                                    IF c[4] < c[2] THEN c[2] ELSE c[4]>>]
        area(sheet, r) ==
            IF r.err # None
            THEN [sheet |-> sheet, coordinates |-> <<>>, err |-> r.err]
            ELSE correct(sheet, r.coordinates)
        split(rng) ==
            IF Len(rng) # 2
            THEN [sheet |-> <<>>, coordinates |-> <<>>, err |-> ErrParameterInvalid]
            ELSE area(rng[1], areaRefToCoordinates(Remove(rng[2], "$")))
    IN  IF Len(rangeStr) < 1
        THEN [sheet |-> <<>>, coordinates |-> <<>>, err |-> ErrParameterRequired]
        ELSE split(Split(rangeStr, "!"))

FormatCell(col, row, dollar) ==
    IF dollar
    THEN <<"$">> \o ColumnNumberToName(col) \o <<"$">> \o Itoa(row)
    ELSE CoordinatesToCellName(col, row)

FormatRange(sheet, xa, ya, xb, yb, dollar) ==
    sheet \o <<"!">> \o FormatCell(xa, ya, dollar) \o <<":">>
          \o FormatCell(xb, yb, dollar)

Sheet1 == <<"S", "h", "e", "e", "t", "1">>

Data2 == <<"D", "a", "t", "a", " ", "2">>

\* A sheet name holding the separator of sheet and cells.
Q1Bang == <<"Q", "1", "!">>

-----------------------------------------------------------------------------
(* adjustRange on the four corner orderings of one box. *)

Orderings == {"neither", "columns", "rows", "both"}

\* The reference naming the box of cells a and b with the corners in ordering o.
OrderedRange(b, o) ==
    CASE o = "neither" -> FormatRange(b.sheet, b.xa, b.ya, b.xb, b.yb, b.dollar)
      [] o = "columns" -> FormatRange(b.sheet, b.xb, b.ya, b.xa, b.yb, b.dollar)
      [] o = "rows"    -> FormatRange(b.sheet, b.xa, b.yb, b.xb, b.ya, b.dollar)
      [] o = "both"    -> FormatRange(b.sheet, b.xb, b.yb, b.xa, b.ya, b.dollar)

Pending == [err |-> "pending"]

RangeInit ==
    /\ Pkg = <<>> /\ Relationships = <<>> /\ ContentTypes = {} /\ PivotCaches = <<>>
    /\ proc = <<>> /\ hist = <<>> /\ opened = <<>> /\ subtotalTest = None
    /\ \E xa \in 1..MaxCol, xb \in 1..MaxCol, ya \in 1..MaxRow, yb \in 1..MaxRow,
          dollar \in BOOLEAN, sheet \in {Sheet1, Data2, Q1Bang} :
           rangeTest = [box |-> [sheet |-> sheet, xa |-> xa, ya |-> ya,
                                 xb |-> xb, yb |-> yb, dollar |-> dollar],
                        out |-> [o \in Orderings |-> Pending]]

ApplyAdjustRange(o) ==
    /\ rangeTest.out[o] = Pending
    /\ rangeTest' = [rangeTest EXCEPT !.out[o] = adjustRange(OrderedRange(rangeTest.box, o))]
    /\ UNCHANGED <<docVars, proc, hist, opened, subtotalTest>>

-----------------------------------------------------------------------------
(* Aggregation-function names. *)

\* Simple case folding of one character (ASCII letters).
FoldChar(c) ==
    LET u == IndexOf(Upper, c) IN IF u # 0 THEN Lower[u] ELSE c

\* strings.EqualFold.
EqualFold(a, b) ==
    /\ Len(a) = Len(b)
    /\ \A i \in DOMAIN a : FoldChar(a[i]) = FoldChar(b[i])

Sum == <<"s", "u", "m">>

enums ==
    << <<"a", "v", "e", "r", "a", "g", "e">>,
       <<"c", "o", "u", "n", "t">>,
       <<"c", "o", "u", "n", "t", "N", "u", "m", "s">>,
       <<"m", "a", "x">>,
       <<"m", "i", "n">>,
       <<"p", "r", "o", "d", "u", "c", "t">>,
       <<"s", "t", "d", "D", "e", "v">>,
       <<"s", "t", "d", "D", "e", "v", "p">>,
       <<"s", "u", "m">>,
       <<"v", "a", "r">>,
       <<"v", "a", "r", "p">> >>

\* The members compared with ==, with no case folding.
inEnums_exactMatch(val) ==
    IF \E i \in DOMAIN enums : enums[i] = val THEN val ELSE Sum

\* inEnums: the first member equal to val under case folding, else "sum".
inEnums(val) ==
    IF \E i \in DOMAIN enums : EqualFold(enums[i], val)
    THEN enums[CHOOSE i \in DOMAIN enums :
                   /\ EqualFold(enums[i], val)
                   /\ \A j \in 1..(i - 1) : ~EqualFold(enums[j], val)]
    ELSE Sum

\* getPivotTableFieldsSubtotal.
getPivotTableFieldsSubtotal(fields) ==
    [idx \in DOMAIN fields |-> inEnums(fields[idx].Subtotal)]

\* A PivotTableField of the caller.
PivotTableField(data, name, subtotal, defaultSubtotal) ==
    [Data |-> data, Name |-> name, Subtotal |-> subtotal,
     DefaultSubtotal |-> defaultSubtotal, Compact |-> FALSE, Outline |-> FALSE]

-----------------------------------------------------------------------------
(* getPivotTableFieldsSubtotal on Data lists of bounded length.  Each       *)
(* spelling carries the enumeration member it was derived from (<<>> for a *)
(* spelling derived from no member).                                       *)

ToUpper(s) ==
    [i \in DOMAIN s |-> LET l == IndexOf(Lower, s[i])
                        IN  IF l # 0 THEN Upper[l] ELSE s[i]]

ToLower(s) ==
    [i \in DOMAIN s |-> LET u == IndexOf(Upper, s[i])
                        IN  IF u # 0 THEN Lower[u] ELSE s[i]]

Title(s) == IF s = <<>> THEN s ELSE ToUpper(<<s[1]>>) \o Tail(s)

Members == {enums[i] : i \in DOMAIN enums}

Spellings ==
    UNION {{[text |-> m, member |-> m],
            [text |-> ToUpper(m), member |-> m],
            [text |-> ToLower(m), member |-> m],
            [text |-> Title(m), member |-> m]} : m \in Members}
    \cup {[text |-> <<>>, member |-> <<>>],
          [text |-> <<"b", "o", "g", "u", "s">>, member |-> <<>>],
          [text |-> <<"s", "u">>, member |-> <<>>],
          [text |-> <<"S", "U", "M", "S">>, member |-> <<>>],
          [text |-> <<"s", "t", "d", "_", "d", "e", "v">>, member |-> <<>>],
          [text |-> <<"V", "a", "r", " ", "p">>, member |-> <<>>]}

SeqsUpTo(S, n) == UNION {[1..k -> S] : k \in 0..n}

FieldName == <<"n">>

SubtotalInit ==
    /\ Pkg = <<>> /\ Relationships = <<>> /\ ContentTypes = {} /\ PivotCaches = <<>>
    /\ proc = <<>> /\ hist = <<>> /\ opened = <<>> /\ rangeTest = None
    /\ \E in \in SeqsUpTo(Spellings, MaxSubtotals) :
            subtotalTest =
                [in |-> in,
                 fields |-> [i \in DOMAIN in |->
                                PivotTableField("Sales", FieldName, in[i].text, FALSE)],
                 done |-> FALSE,
                 out |-> <<>>]

ApplySubtotal ==
    /\ ~subtotalTest.done
    /\ subtotalTest' = [subtotalTest EXCEPT
                            !.done = TRUE,
                            !.out = getPivotTableFieldsSubtotal(subtotalTest.fields)]
    /\ UNCHANGED <<docVars, proc, hist, opened, rangeTest>>

-----------------------------------------------------------------------------
(* The workbook a call operates on: its sheets, header cells and defined   *)
(* names.  These are read, never written, by AddPivotTable.                *)

Sheet2 == <<"S", "h", "e", "e", "t", "2">>

Sheet9 == <<"S", "h", "e", "e", "t", "9">>

WorkbookScope == <<"W", "o", "r", "k", "b", "o", "o", "k">>

\* f.sheetMap: sheet name -> <<directory, file>> of its XML part.
SheetMap ==
    (Sheet1 :> <<"xl/worksheets/", <<"s", "h", "e", "e", "t", "1", ".", "x", "m", "l">>>>)
        @@ (Sheet2 :> <<"xl/worksheets/", <<"s", "h", "e", "e", "t", "2", ".", "x", "m", "l">>>>)

\* Row 1 of Sheet1 holds the header of the data region.
SheetCells == (<<1, 1>> :> "Month") @@ (<<2, 1>> :> "Year") @@ (<<3, 1>> :> "Type")

DataName == <<"d", "a", "t", "a", "s", "e", "t">>

DefinedNames ==
    {[Name |-> DataName, Scope |-> WorkbookScope,
      RefersTo |-> FormatRange(Sheet1, 1, 1, 3, 3, TRUE)]}

\* getSheetXMLPath.
getSheetXMLPath(sheet) ==
    IF sheet \in DOMAIN SheetMap
    THEN [path |-> SheetMap[sheet], ok |-> TRUE]
    ELSE [path |-> <<>>, ok |-> FALSE]

\* workSheetReader, as far as AddPivotTable uses it: whether the sheet exists.
workSheetReader(sheet) ==
    IF sheet \in DOMAIN SheetMap THEN None ELSE "ErrSheetNotExist"

\* GetCellValue: the text of a cell, "" for an empty cell.
GetCellValue(sheet, cell) ==
    LET c == CellNameToCoordinates(cell)
    IN  IF sheet = Sheet1 /\ c \in DOMAIN SheetCells THEN SheetCells[c] ELSE ""

\* getDefinedNameRefTo: worksheet scope takes precedence over workbook scope.
getDefinedNameRefTo(name, currentSheet) ==
    LET wb == {d \in DefinedNames : d.Name = name /\ d.Scope = WorkbookScope}
        ws == {d \in DefinedNames : d.Name = name /\ d.Scope = currentSheet}
    IN  IF ws # {} THEN (CHOOSE d \in ws : TRUE).RefersTo
        ELSE IF wb # {} THEN (CHOOSE d \in wb : TRUE).RefersTo
        ELSE <<>>

\* inStrSlice(a, x, true): zero-based position of the first x in a, or -1.
inStrSlice(a, x) == IndexOf(a, x) - 1

-----------------------------------------------------------------------------
(* Errors returned by AddPivotTable and its helpers. *)

NilErr == [where |-> "", cause |-> None]

Error(where, cause) == [where |-> where, cause |-> cause]

\* A nil *PivotTableOption.
NilOpts == [isNil |-> TRUE]

-----------------------------------------------------------------------------
(* Validation. *)

\* The data range, after defined-name resolution (lines 179-182, 232-235, 255-259).
ResolvedDataRange(opts, sheetName) ==
    LET pick(dataRange) == IF dataRange = <<>> THEN opts.DataRange ELSE dataRange
    IN  pick(getDefinedNameRefTo(opts.DataRange, sheetName))

\* Validation that accepts a degenerate or malformed PivotTableRange.
parseFormatPivotTableSet_noRangeCheck(opts) ==
    LET sheets(name, dr, sp) ==
            IF dr.err # None
            THEN [pivotTableSheetName |-> name, path |-> <<>>,
                  err |-> Error("DataRange", dr.err)]
            ELSE IF workSheetReader(dr.sheet) # None
            THEN [pivotTableSheetName |-> name, path |-> <<>>,
                  err |-> Error("", workSheetReader(dr.sheet))]
            ELSE IF ~sp.ok
            THEN [pivotTableSheetName |-> name, path |-> sp.path,
                  err |-> Error("", "sheet does not exist")]
            ELSE [pivotTableSheetName |-> name, path |-> sp.path, err |-> NilErr]
        placed(pr) ==
            sheets(pr.sheet, adjustRange(ResolvedDataRange(opts, pr.sheet)),
                   getSheetXMLPath(pr.sheet))
    IN  IF opts = NilOpts
        THEN [pivotTableSheetName |-> <<>>, path |-> <<>>,
              err |-> Error("", ErrParameterRequired)]
        ELSE placed(adjustRange(opts.PivotTableRange))

\* parseFormatPivotTableSet: the placement sheet's name (stored into the
\* options at line 178), its XML path, and the error.
parseFormatPivotTableSet(opts) ==
    LET sheets(name, dr, sp) ==
            IF dr.err # None
            THEN [pivotTableSheetName |-> name, path |-> <<>>,
                  err |-> Error("DataRange", dr.err)]
            ELSE IF workSheetReader(dr.sheet) # None
            THEN [pivotTableSheetName |-> name, path |-> <<>>,
                  err |-> Error("", workSheetReader(dr.sheet))]
            ELSE IF ~sp.ok
            THEN [pivotTableSheetName |-> name, path |-> sp.path,
                  err |-> Error("", "sheet does not exist")]
            ELSE [pivotTableSheetName |-> name, path |-> sp.path, err |-> NilErr]
        placed(pr) ==
            IF pr.err # None
            THEN [pivotTableSheetName |-> <<>>, path |-> <<>>,
                  err |-> Error("PivotTableRange", pr.err)]
            ELSE sheets(pr.sheet, adjustRange(ResolvedDataRange(opts, pr.sheet)),
                        getSheetXMLPath(pr.sheet))
    IN  IF opts = NilOpts
        THEN [pivotTableSheetName |-> <<>>, path |-> <<>>,
              err |-> Error("", ErrParameterRequired)]
        ELSE placed(adjustRange(opts.PivotTableRange))

-----------------------------------------------------------------------------
(* Field order, options and names. *)

\* getPivotFieldsOrder: the header cells of the data range, left to right.
getPivotFieldsOrder(opts) ==
    LET cells(r) ==
            IF r.err # None
            THEN [order |-> <<>>, err |-> Error("DataRange", r.err)]
            ELSE [order |-> [i \in 1..(r.coordinates[3] - r.coordinates[1] + 1) |->
                                GetCellValue(r.sheet,
                                             CoordinatesToCellName(
                                                 r.coordinates[1] + i - 1,
                                                 r.coordinates[2]))],
                  err |-> NilErr]
    IN  cells(adjustRange(ResolvedDataRange(opts, opts.pivotTableSheetName)))

inPivotTableField(a, x) ==
    IF \E i \in DOMAIN a : a[i].Data = x
    THEN (CHOOSE i \in DOMAIN a :
              a[i].Data = x /\ \A j \in 1..(i - 1) : a[j].Data # x) - 1
    ELSE -1

ZeroField == PivotTableField("", <<>>, <<>>, FALSE)

\* getPivotTableFieldOptions: the first entry named name, and whether there is one.
getPivotTableFieldOptions(name, fields) ==
    LET at(i) == IF i # -1 THEN [options |-> fields[i + 1], ok |-> TRUE]
                 ELSE [options |-> ZeroField, ok |-> FALSE]
    IN  at(inPivotTableField(fields, name))

MaxFieldLength == 255

\* getPivotTableFieldsName: display names, truncated to MaxFieldLength.
getPivotTableFieldsName(fields) ==
    [idx \in DOMAIN fields |->
        IF Len(fields[idx].Name) > MaxFieldLength
        THEN SubSeq(fields[idx].Name, 1, MaxFieldLength)
        ELSE fields[idx].Name]

\* getPivotTableFieldName: the display name of the first entry named name.
getPivotTableFieldName(name, fields) ==
    LET at(i) == IF i # -1 THEN getPivotTableFieldsName(fields)[i + 1] ELSE <<>>
    IN  at(inPivotTableField(fields, name))

RECURSIVE FilterIndex(_, _)
FilterIndex(fields, orders) ==
    IF fields = <<>> THEN <<>>
    ELSE LET keep(pos) == IF pos # -1 THEN <<pos>> ELSE <<>>
         IN  keep(inStrSlice(orders, Head(fields).Data))
                 \o FilterIndex(Tail(fields), orders)

\* getPivotFieldsIndex: header positions of the entries found in the header.
getPivotFieldsIndex(fields, opts) ==
    LET index(o) ==
            IF o.err # NilErr THEN [index |-> <<>>, err |-> o.err]
            ELSE [index |-> FilterIndex(fields, o.order), err |-> NilErr]
    IN  index(getPivotFieldsOrder(opts))

-----------------------------------------------------------------------------
(* The pivot cache definition. *)

\* sharedItems.Count of the cache field of header name (lines 287-299).
SharedItemsCount(name, opts) ==
    LET decide(row, col) ==
            IF (row.ok /\ ~row.options.DefaultSubtotal)
               \/ (col.ok /\ ~col.options.DefaultSubtotal)
            THEN 1 ELSE 0
    IN  decide(getPivotTableFieldOptions(name, opts.Rows),
               getPivotTableFieldOptions(name, opts.Columns))

\* addPivotCache: the cache definition stored under pivotCacheXML, and the error.
addPivotCache(opts) ==
    LET cacheFields(order) ==
            [i \in DOMAIN order |->
                [Name |-> order[i],
                 SharedItems |-> [Count |-> SharedItemsCount(order[i], opts)]]]
        define(definedNameRef, r, fields) ==
            [err |-> NilErr,
             pc |-> [RefreshOnLoad |-> TRUE,
                     CacheSource |->
                         IF definedNameRef
                         THEN [Type |-> "worksheet", Name |-> opts.DataRange,
                               Ref |-> <<>>, Sheet |-> <<>>]
                         ELSE [Type |-> "worksheet", Name |-> <<>>,
                               Ref |-> CoordinatesToCellName(r.coordinates[1],
                                                             r.coordinates[2])
                                       \o <<":">>
                                       \o CoordinatesToCellName(r.coordinates[3],
                                                                r.coordinates[4]),
                               Sheet |-> r.sheet],
                     CacheFields |-> [Count |-> Len(fields), CacheField |-> fields]]]
        build(definedNameRef, r) ==
            IF r.err # None
            THEN [err |-> Error("DataRange", r.err), pc |-> <<>>]
            ELSE define(definedNameRef, r, cacheFields(getPivotFieldsOrder(opts).order))
    IN  build(getDefinedNameRefTo(opts.DataRange, opts.pivotTableSheetName) # <<>>,
              adjustRange(ResolvedDataRange(opts, opts.pivotTableSheetName)))

-----------------------------------------------------------------------------
(* The pivot table definition. *)

\* An xlsxItem: either the index item (X points at 0) or the "default" item.
ItemX == [T |-> "", X |-> <<0>>]

ItemDefault == [T |-> "default", X |-> <<>>]

\* The zero xlsxPivotField: nil pointers are empty sequences.
EmptyPivotField ==
    [Name |-> <<>>, Axis |-> "", DataField |-> FALSE, Compact |-> <<>>,
     Outline |-> <<>>, DefaultSubtotal |-> <<>>, Items |-> <<>>]

\* The xlsxPivotField of a Row or Column field (lines 532-551, 569-587).
AxisField(name, axis, fields, opts) ==
    LET build(o) ==
            [Name |-> getPivotTableFieldName(name, fields),
             Axis |-> axis,
             DataField |-> inPivotTableField(opts.Data, name) # -1,
             Compact |-> <<o.options.Compact>>,
             Outline |-> <<o.options.Outline>>,
             DefaultSubtotal |-> <<o.options.DefaultSubtotal>>,
             Items |-> IF ~o.ok \/ ~o.options.DefaultSubtotal
                       THEN <<ItemX>> ELSE <<ItemDefault>>]
    IN  build(getPivotTableFieldOptions(name, fields))

\* The xlsxPivotField of a Filter field (lines 555-565): its name is looked
\* up in opts.Columns.
PageField(name, opts) ==
    [EmptyPivotField EXCEPT
         !.Axis = "axisPage",
         !.DataField = inPivotTableField(opts.Data, name) # -1,
         !.Name = getPivotTableFieldName(name, opts.Columns),
         !.Items = <<ItemDefault>>]

\* Columns tried before Filter.
PivotFieldOf_columnsFirst(name, opts) ==
    IF inPivotTableField(opts.Rows, name) # -1
    THEN AxisField(name, "axisRow", opts.Rows, opts)
    ELSE IF inPivotTableField(opts.Columns, name) # -1
    THEN AxisField(name, "axisCol", opts.Columns, opts)
    ELSE IF inPivotTableField(opts.Filter, name) # -1
    THEN PageField(name, opts)
    ELSE IF inPivotTableField(opts.Data, name) # -1
    THEN [EmptyPivotField EXCEPT !.DataField = TRUE]
    ELSE EmptyPivotField

\* The xlsxPivotField appended for header name (body of the loop, lines 531-596).
PivotFieldOf(name, opts) ==
    IF inPivotTableField(opts.Rows, name) # -1
    THEN AxisField(name, "axisRow", opts.Rows, opts)
    ELSE IF inPivotTableField(opts.Filter, name) # -1
    THEN PageField(name, opts)
    ELSE IF inPivotTableField(opts.Columns, name) # -1
    THEN AxisField(name, "axisCol", opts.Columns, opts)
    ELSE IF inPivotTableField(opts.Data, name) # -1
    THEN [EmptyPivotField EXCEPT !.DataField = TRUE]
    ELSE EmptyPivotField

\* addPivotFields: one xlsxPivotField per header name, in header order.
addPivotFields(opts) ==
    LET fields(o) ==
            IF o.err # NilErr THEN <<>>
            ELSE [i \in DOMAIN o.order |-> PivotFieldOf(o.order[i], opts)]
    IN  fields(getPivotFieldsOrder(opts))

NoFields == [present |-> FALSE, Count |-> 0, Field |-> <<>>]

\* addPivotRowFields.
addPivotRowFields(opts) ==
    LET rows(r) ==
            IF r.err # NilErr \/ r.index = <<>> THEN NoFields
            ELSE [present |-> TRUE, Count |-> Len(r.index),
                  Field |-> [i \in DOMAIN r.index |-> [X |-> r.index[i]]]]
    IN  rows(getPivotFieldsIndex(opts.Rows, opts))

\* addPivotPageFields.
addPivotPageFields(opts) ==
    LET pages(r, pageFieldsName) ==
            IF r.err # NilErr \/ r.index = <<>> THEN NoFields
            ELSE [present |-> TRUE, Count |-> Len(r.index),
                  Field |-> [idx \in DOMAIN r.index |->
                                [Name |-> pageFieldsName[idx], Fld |-> r.index[idx]]]]
    IN  pages(getPivotFieldsIndex(opts.Filter, opts),
              getPivotTableFieldsName(opts.Filter))

\* addPivotDataFields.
addPivotDataFields(opts) ==
    LET data(r, dataFieldsSubtotals, dataFieldsName) ==
            IF r.err # NilErr \/ r.index = <<>> THEN NoFields
            ELSE [present |-> TRUE, Count |-> Len(r.index),
                  Field |-> [idx \in DOMAIN r.index |->
                                [Name |-> dataFieldsName[idx], Fld |-> r.index[idx],
                                 Subtotal |-> dataFieldsSubtotals[idx]]]]
    IN  data(getPivotFieldsIndex(opts.Data, opts),
             getPivotTableFieldsSubtotal(opts.Data),
             getPivotTableFieldsName(opts.Data))

\* The sentinel is appended whenever there is any Data field.
addPivotColFields_anyData(opts) ==
    LET count(field) == [present |-> TRUE, Count |-> Len(field), Field |-> field]
        cols(r) ==
            IF r.err # NilErr THEN [present |-> TRUE, Count |-> 0, Field |-> <<>>]
            ELSE count([i \in DOMAIN r.index |-> [X |-> r.index[i]]]
                           \o (IF Len(opts.Data) >= 1 THEN <<[X |-> -2]>> ELSE <<>>))
    IN  IF Len(opts.Columns) = 0
        THEN IF Len(opts.Data) < 1 THEN NoFields
             ELSE [present |-> TRUE, Count |-> 1, Field |-> <<[X |-> -2]>>]
        ELSE cols(getPivotFieldsIndex(opts.Columns, opts))

\* addPivotColFields: the declared columns, and the -2 sentinel ("Values")
\* when there is more than one Data field.
addPivotColFields(opts) ==
    LET count(field) == [present |-> TRUE, Count |-> Len(field), Field |-> field]
        cols(r) ==
            IF r.err # NilErr THEN [present |-> TRUE, Count |-> 0, Field |-> <<>>]
            ELSE count([i \in DOMAIN r.index |-> [X |-> r.index[i]]]
                           \o (IF Len(opts.Data) > 1 THEN <<[X |-> -2]>> ELSE <<>>))
    IN  IF Len(opts.Columns) = 0
        THEN IF Len(opts.Data) <= 1 THEN NoFields
             ELSE [present |-> TRUE, Count |-> 1, Field |-> <<[X |-> -2]>>]
        ELSE cols(getPivotFieldsIndex(opts.Columns, opts))

PivotStyleLight16 == <<"P", "i", "v", "o", "t", "S", "t", "y", "l", "e", "L", "i", "g", "h", "t", "1", "6">>

PivotTableName == <<"P", "i", "v", "o", "t", " ", "T", "a", "b", "l", "e">>

\* addPivotTable: the table definition stored under pivotTableXML, and the error.
addPivotTable(cacheID, pivotTableID, opts) ==
    LET define(r, pivotFields) ==
            [err |-> NilErr,
             pt |-> [Name |-> PivotTableName \o Itoa(pivotTableID),
                     CacheID |-> cacheID,
                     Layout |-> opts.Layout,
                     DataCaption |-> "Values",
                     Location |->
                         [Ref |-> CoordinatesToCellName(r.coordinates[1],
                                                        r.coordinates[2])
                                  \o <<":">>
                                  \o CoordinatesToCellName(r.coordinates[3],
                                                           r.coordinates[4])],
                     StyleName |-> IF opts.PivotTableStyleName = <<>>
                                   THEN PivotStyleLight16
                                   ELSE opts.PivotTableStyleName,
                     PivotFields |-> [Count |-> Len(pivotFields),
                                      PivotField |-> pivotFields],
                     RowFields |-> addPivotRowFields(opts),
                     ColFields |-> addPivotColFields(opts),
                     PageFields |-> addPivotPageFields(opts),
                     DataFields |-> addPivotDataFields(opts)]]
        build(r) ==
            IF r.err # None
            THEN [err |-> Error("PivotTableRange", r.err), pt |-> <<>>]
            ELSE define(r, addPivotFields(opts))
    IN  build(adjustRange(opts.PivotTableRange))

-----------------------------------------------------------------------------
(* The package: parts, relationships, content types, the workbook's        *)
(* pivot-cache registry.  A part name or relationship target is            *)
(* <<prefix, middle, suffix>>, the middle being the digits strconv.Itoa    *)
(* produced; no prefix of the model occurs inside another name.            *)

PivotTablePrefix == "xl/pivotTables/pivotTable"

PivotCachePrefix == "xl/pivotCache/pivotCacheDefinition"

\* strings.Contains(k, prefix) over the part names of the model.
Contains(k, prefix) == k[1] = prefix

\* Highest number among the existing pivot-table parts, instead of their count.
countPivotTables_max(pkg) ==
    LET ns == {Atoi(k[2]) : k \in {k \in DOMAIN pkg : Contains(k, PivotTablePrefix)}}
    IN  IF ns = {} THEN 0 ELSE CHOOSE n \in ns : \A m \in ns : m <= n

\* countPivotTables.
countPivotTables(pkg) ==
    Cardinality({k \in DOMAIN pkg : Contains(k, PivotTablePrefix)})

\* countPivotCache.
countPivotCache(pkg) ==
    Cardinality({k \in DOMAIN pkg : Contains(k, PivotCachePrefix)})

\* "xl/pivotTables/pivotTable" + strconv.Itoa(pivotTableID) + ".xml" (lines 141-142).
pivotTableXML(pivotTableID) == <<PivotTablePrefix, Itoa(pivotTableID), ".xml">>

\* "xl/pivotCache/pivotCacheDefinition" + strconv.Itoa(pivotCacheID) + ".xml".
pivotCacheXML(pivotCacheID) == <<PivotCachePrefix, Itoa(pivotCacheID), ".xml">>

\* saveFileList: store (or overwrite) a part.
saveFileList(pkg, name, content) ==
    [k \in DOMAIN pkg \cup {name} |-> IF k = name THEN content ELSE pkg[k]]

RId == <<"r", "I", "d">>

SourceRelationshipPivotCache == "pivotCacheDefinition"

SourceRelationshipPivotTable == "pivotTable"

SourceRelationshipWorkSheet == "worksheet"

WorkbookRelsPath == <<"xl/_rels/workbook.xml.rels", <<>>, "">>

\* "xl/pivotTables/_rels/pivotTable" + strconv.Itoa(pivotTableID) + ".xml.rels".
PivotCacheRelsPath(pivotTableID) ==
    <<"xl/pivotTables/_rels/pivotTable", Itoa(pivotTableID), ".xml.rels">>

\* "xl/worksheets/_rels/" + TrimPrefix(sheetPath, "xl/worksheets/") + ".rels".
SheetRelsPath(sheetPath) == <<"xl/worksheets/_rels/", sheetPath[2], ".rels">>

WorkbookCacheTarget(pivotCacheID) ==
    <<"/xl/pivotCache/pivotCacheDefinition", Itoa(pivotCacheID), ".xml">>

TableCacheTarget(pivotCacheID) ==
    <<"../pivotCache/pivotCacheDefinition", Itoa(pivotCacheID), ".xml">>

SheetTableTarget(pivotTableID) ==
    <<"../pivotTables/pivotTable", Itoa(pivotTableID), ".xml">>

SetMax(S) == IF S = {} THEN 0 ELSE CHOOSE n \in S : \A m \in S : m <= n

\* addRels: append a relationship numbered one above the highest existing
\* rId of the rels part, and return that number.
addRels(rels, relPath, relType, target) ==
    LET store(rID, new) ==
            [rID |-> rID,
             rels |-> [k \in DOMAIN rels \cup {relPath} |->
                          IF k = relPath THEN new ELSE rels[k]]]
        add(old, rID) ==
            store(rID, Append(old, [ID |-> RId \o Itoa(rID), Type |-> relType,
                                    Target |-> target]))
        next(old) ==
            add(old, SetMax({Atoi(SubSeq(old[i].ID, Len(RId) + 1, Len(old[i].ID))) :
                                 i \in DOMAIN old}) + 1)
    IN  next(IF relPath \in DOMAIN rels THEN rels[relPath] ELSE <<>>)

addContentTypePart(ct, index, contentType) ==
    ct \cup {[PartName |-> IF contentType = "pivotTable"
                           THEN <<"/xl/pivotTables/pivotTable", Itoa(index), ".xml">>
                           ELSE <<"/xl/pivotCache/pivotCacheDefinition",
                                  Itoa(index), ".xml">>,
              ContentType |-> contentType]}

\* The scan starting from 0 instead of 1.
maxCacheID_fromZero(pivotCaches) ==
    SetMax({pivotCaches[i].CacheID : i \in DOMAIN pivotCaches})

\* The scan left out: the initial value 1 whatever the registry holds.
maxCacheID_noScan(pivotCaches) == 1

\* The scan of addWorkbookPivotCache (lines 703-708): the highest CacheID
\* above the initial value 1, else 1.
maxCacheID(pivotCaches) ==
    Max(1, SetMax({pivotCaches[i].CacheID : i \in DOMAIN pivotCaches}))

\* The entry numbered by its relationship instead of the scanned maximum.
NewPivotCache_byRelationship(cacheID, RID) ==
    [CacheID |-> RID, RID |-> RId \o Itoa(RID)]

\* The registry entry appended at lines 709-713.
NewPivotCache(cacheID, RID) == [CacheID |-> cacheID, RID |-> RId \o Itoa(RID)]

-----------------------------------------------------------------------------
(* AddPivotTable.  One invocation walks through the steps below; proc[p]   *)
(* holds its position and its local variables.  Steps are split where the  *)
(* call reads or writes the shared document, which no lock protects.       *)

Procs == {1, 2}

Doc ==
    [Pkg |-> Pkg, Relationships |-> Relationships,
     ContentTypes |-> ContentTypes, PivotCaches |-> PivotCaches]

EmptyDoc ==
    [Pkg |-> <<>>, Relationships |-> <<>>, ContentTypes |-> {}, PivotCaches |-> <<>>]

Idle ==
    [pc |-> "idle", opts |-> NilOpts, kind |-> "", path |-> <<>>,
     pivotTableID |-> 0, pivotCacheID |-> 0, workBookPivotCacheRID |-> 0,
     cacheID |-> 0, err |-> NilErr, errAt |-> "",
     doc0 |-> EmptyDoc,        \* the document when the call began
     pkgSeen |-> {},           \* the part names the counts were taken over
     regSeen |-> <<>>,         \* the registry the maximum was taken over
     overwrote |-> FALSE]      \* whether a write replaced an existing part

Running(q) == proc[q].pc \notin {"idle", "done"}

Return(p, err, errAt) ==
    [proc EXCEPT ![p].pc = "done", ![p].err = err, ![p].errAt = errAt]

\* Lines 131-136: parameter validation.
Call(p, in) ==
    /\ ~Running(p)
    /\ Len(hist) + Cardinality({q \in Procs : Running(q)}) < MaxCalls
    /\ LET begin(v, begun) ==
               IF v.err # NilErr
               THEN [begun EXCEPT !.pc = "done", !.err = v.err, !.errAt = "validation"]
               ELSE [begun EXCEPT !.pc = "count",
                                  !.opts.pivotTableSheetName = v.pivotTableSheetName,
                                  !.path = v.path]
       IN  proc' = [proc EXCEPT ![p] =
                       begin(parseFormatPivotTableSet(in.opts),
                             [Idle EXCEPT !.opts = in.opts, !.kind = in.kind,
                                          !.doc0 = Doc])]
    /\ UNCHANGED <<docVars, hist, opened, rangeTest, subtotalTest>>

Count(p) ==
    /\ proc[p].pc = "count"
    /\ proc' = [proc EXCEPT ![p].pc = "addPivotCache",
                            ![p].pivotTableID = countPivotTables(Pkg) + 1,
                            ![p].pivotCacheID = countPivotCache(Pkg) + 1,
                            ![p].pkgSeen = DOMAIN Pkg]
    /\ UNCHANGED <<docVars, hist, opened, rangeTest, subtotalTest>>

\* Lines 143-147: build and store the cache definition.
AddPivotCache(p) ==
    /\ proc[p].pc = "addPivotCache"
    /\ LET store(r, name) ==
               IF r.err # NilErr
               THEN /\ proc' = Return(p, r.err, "addPivotCache")
                    /\ UNCHANGED Pkg
               ELSE /\ Pkg' = saveFileList(Pkg, name, r.pc)
                    /\ proc' = [proc EXCEPT ![p].pc = "addWorkbookRels",
                                            ![p].overwrote = name \in DOMAIN Pkg]
       IN  store(addPivotCache(proc[p].opts), pivotCacheXML(proc[p].pivotCacheID))
    /\ UNCHANGED <<Relationships, ContentTypes, PivotCaches, hist,
                   opened, rangeTest, subtotalTest>>

\* Line 150: the workbook's relationship to the cache definition.
AddWorkbookRels(p) ==
    /\ proc[p].pc = "addWorkbookRels"
    /\ LET store(a) ==
               /\ Relationships' = a.rels
               /\ proc' = [proc EXCEPT ![p].pc = "readWorkbookPivotCache",
                                       ![p].workBookPivotCacheRID = a.rID]
       IN  store(addRels(Relationships, WorkbookRelsPath, SourceRelationshipPivotCache,
                         WorkbookCacheTarget(proc[p].pivotCacheID)))
    /\ UNCHANGED <<Pkg, ContentTypes, PivotCaches, hist, opened, rangeTest, subtotalTest>>

ReadWorkbookPivotCache(p) ==
    /\ proc[p].pc = "readWorkbookPivotCache"
    /\ proc' = [proc EXCEPT ![p].pc = "appendWorkbookPivotCache",
                            ![p].cacheID = maxCacheID(PivotCaches),
                            ![p].regSeen = PivotCaches]
    /\ UNCHANGED <<docVars, hist, opened, rangeTest, subtotalTest>>

\* addWorkbookPivotCache, lines 709-714: increment, append, return.
AppendWorkbookPivotCache(p) ==
    /\ proc[p].pc = "appendWorkbookPivotCache"
    /\ PivotCaches' = Append(PivotCaches,
                             NewPivotCache(proc[p].cacheID + 1,
                                           proc[p].workBookPivotCacheRID))
    /\ proc' = [proc EXCEPT ![p].pc = "writePivotTable",
                            ![p].cacheID = proc[p].cacheID + 1]
    /\ UNCHANGED <<Pkg, Relationships, ContentTypes, hist, opened, rangeTest, subtotalTest>>

\* Lines 153-159: the table's relationship to its cache, then the table definition.
WritePivotTable(p) ==
    /\ proc[p].pc = "writePivotTable"
    /\ LET store(a, t, name) ==
               /\ Relationships' = a.rels
               /\ IF t.err # NilErr
                  THEN /\ proc' = Return(p, t.err, "addPivotTable")
                       /\ UNCHANGED Pkg
                  ELSE /\ Pkg' = saveFileList(Pkg, name, t.pt)
                       /\ proc' = [proc EXCEPT
                                       ![p].pc = "link",
                                       ![p].overwrote = proc[p].overwrote
                                                            \/ name \in DOMAIN Pkg]
       IN  store(addRels(Relationships, PivotCacheRelsPath(proc[p].pivotTableID),
                         SourceRelationshipPivotCache,
                         TableCacheTarget(proc[p].pivotCacheID)),
                 addPivotTable(proc[p].cacheID, proc[p].pivotTableID, proc[p].opts),
                 pivotTableXML(proc[p].pivotTableID))
    /\ UNCHANGED <<ContentTypes, PivotCaches, hist, opened, rangeTest, subtotalTest>>

Summary(p) ==
    [proc |-> p,
     pivotTableID |-> proc[p].pivotTableID,
     pivotCacheID |-> proc[p].pivotCacheID,
     cacheID |-> proc[p].cacheID,
     workBookPivotCacheRID |-> proc[p].workBookPivotCacheRID,
     overwrote |-> proc[p].overwrote]

\* Lines 160-165: the sheet's relationship to the table, the content types.
Link(p) ==
    /\ proc[p].pc = "link"
    /\ Relationships' = addRels(Relationships, SheetRelsPath(proc[p].path),
                                SourceRelationshipPivotTable,
                                SheetTableTarget(proc[p].pivotTableID)).rels
    /\ ContentTypes' = addContentTypePart(
                           addContentTypePart(ContentTypes, proc[p].pivotTableID,
                                              "pivotTable"),
                           proc[p].pivotCacheID, "pivotCache")
    /\ proc' = Return(p, NilErr, "")
    /\ hist' = Append(hist, Summary(p))
    /\ UNCHANGED <<Pkg, PivotCaches, opened, rangeTest, subtotalTest>>

-----------------------------------------------------------------------------
(* Documents a call may find: a new workbook, or one that already holds    *)
(* pivot tables written by this library or another producer.               *)

MaxCacheID == 2

OtherPart == [kind |-> "other"]

BaseParts ==
    {<<"xl/workbook", <<>>, ".xml">>,
     <<"xl/worksheets/sheet", <<"1">>, ".xml">>,
     <<"xl/worksheets/sheet", <<"2">>, ".xml">>}

BaseWorkbookRels ==
    <<[ID |-> RId \o <<"1">>, Type |-> SourceRelationshipWorkSheet,
       Target |-> <<"worksheets/sheet", <<"1">>, ".xml">>],
      [ID |-> RId \o <<"2">>, Type |-> SourceRelationshipWorkSheet,
       Target |-> <<"worksheets/sheet", <<"2">>, ".xml">>]>>

Fresh ==
    [Pkg |-> [k \in BaseParts |-> OtherPart],
     Relationships |-> (WorkbookRelsPath :> BaseWorkbookRels),
     ContentTypes |-> {},
     PivotCaches |-> <<>>]

\* A workbook holding the tables T (each [n, cache]: table part n reading
\* cache part cache) and the caches C (each [n, id]: cache part n registered
\* under CacheID id), all placed on Sheet2.
ExistingDoc(T, C) ==
    LET tableParts == {pivotTableXML(T[i].n) : i \in DOMAIN T}
        cacheParts == {pivotCacheXML(C[i].n) : i \in DOMAIN C}
        recordParts == {<<"xl/pivotCache/pivotCacheRecords", Itoa(C[i].n), ".xml">> :
                            i \in DOMAIN C}
        cacheIDOf(n) == (CHOOSE i \in DOMAIN C : C[i].n = n)
        content(k) ==
            IF k \in tableParts
            THEN LET t == CHOOSE i \in DOMAIN T : pivotTableXML(T[i].n) = k
                 IN  [Name |-> PivotTableName \o Itoa(T[t].n),
                      CacheID |-> C[cacheIDOf(T[t].cache)].id]
            ELSE OtherPart
        tableRels == [k \in {PivotCacheRelsPath(T[i].n) : i \in DOMAIN T} |->
                         LET t == CHOOSE i \in DOMAIN T : PivotCacheRelsPath(T[i].n) = k
                         IN  <<[ID |-> RId \o <<"1">>,
                                Type |-> SourceRelationshipPivotCache,
                                Target |-> TableCacheTarget(T[t].cache)]>>]
    IN  [Pkg |-> [k \in BaseParts \cup tableParts \cup cacheParts \cup recordParts |->
                     content(k)],
         Relationships |->
             (WorkbookRelsPath :>
                  (BaseWorkbookRels \o
                       [i \in DOMAIN C |->
                           [ID |-> RId \o Itoa(2 + i),
                            Type |-> SourceRelationshipPivotCache,
                            Target |-> WorkbookCacheTarget(C[i].n)]]))
             @@ (SheetRelsPath(SheetMap[Sheet2]) :>
                     [i \in DOMAIN T |->
                         [ID |-> RId \o Itoa(i),
                          Type |-> SourceRelationshipPivotTable,
                          Target |-> SheetTableTarget(T[i].n)]])
             @@ tableRels,
         ContentTypes |->
             {[PartName |-> <<"/xl/pivotTables/pivotTable", Itoa(T[i].n), ".xml">>,
               ContentType |-> "pivotTable"] : i \in DOMAIN T}
             \cup {[PartName |-> <<"/xl/pivotCache/pivotCacheDefinition",
                                   Itoa(C[i].n), ".xml">>,
                    ContentType |-> "pivotCache"] : i \in DOMAIN C},
         PivotCaches |-> [i \in DOMAIN C |->
                             [CacheID |-> C[i].id, RID |-> RId \o Itoa(2 + i)]]]

InitialDocs ==
    {Fresh}
    \* one table on one cache
    \cup {ExistingDoc(<<[n |-> 1, cache |-> 1]>>, <<[n |-> 1, id |-> a]>>) :
              a \in 0..MaxCacheID}
    \* table 1 and cache 1 were deleted, table 2 and cache 2 remain
    \cup {ExistingDoc(<<[n |-> 2, cache |-> 2]>>, <<[n |-> 2, id |-> a]>>) :
              a \in 0..MaxCacheID}
    \* two tables sharing one cache
    \cup {ExistingDoc(<<[n |-> 1, cache |-> 1], [n |-> 2, cache |-> 1]>>,
                      <<[n |-> 1, id |-> a]>>) : a \in 0..MaxCacheID}
    \* two tables, two caches
    \cup {ExistingDoc(<<[n |-> 1, cache |-> 1], [n |-> 2, cache |-> 2]>>,
                      <<[n |-> 1, id |-> a], [n |-> 2, id |-> b]>>) :
              <<a, b>> \in {ab \in (0..MaxCacheID) \X (0..MaxCacheID) : ab[1] # ab[2]}}

DocInit(docs) ==
    /\ \E d \in docs :
        /\ Pkg = d.Pkg
        /\ Relationships = d.Relationships
        /\ ContentTypes = d.ContentTypes
        /\ PivotCaches = d.PivotCaches
    /\ opened = Doc
    /\ proc = [p \in Procs |-> Idle]
    /\ hist = <<>>
    /\ rangeTest = None
    /\ subtotalTest = None

-----------------------------------------------------------------------------
(* Options a caller passes. *)

DefaultLayout ==
    [RowGrandTotals |-> TRUE, ColGrandTotals |-> TRUE, ShowDrill |-> TRUE,
     UseAutoFormatting |-> FALSE, PageOverThenDown |-> FALSE, MergeItem |-> FALSE,
     CompactData |-> FALSE, ShowError |-> FALSE, ShowRowHeaders |-> TRUE,
     ShowColHeaders |-> TRUE, ShowRowStripes |-> FALSE, ShowColStripes |-> FALSE,
     ShowLastColumn |-> TRUE]

Options(dataRange, pivotTableRange, rows, filter, columns, data) ==
    [pivotTableSheetName |-> <<>>, DataRange |-> dataRange,
     PivotTableRange |-> pivotTableRange, Rows |-> rows, Columns |-> columns,
     Data |-> data, Filter |-> filter, Layout |-> DefaultLayout,
     PivotTableStyleName |-> <<>>]

GoodData == FormatRange(Sheet1, 1, 1, 3, 3, TRUE)

GoodPlace == FormatRange(Sheet2, 5, 2, 7, 5, TRUE)

Summarize == <<"S", "u", "m", "m", "a", "r", "i", "z", "e">>

OneField(dataRange, pivotTableRange) ==
    Options(dataRange, pivotTableRange,
            <<PivotTableField("Month", <<>>, <<>>, TRUE)>>, <<>>,
            <<PivotTableField("Type", <<>>, <<>>, TRUE)>>,
            <<PivotTableField("Year", Summarize, <<"S", "u", "m">>, FALSE)>>)

\* Well-formed requests.
ValidInputs ==
    {[kind |-> "valid", opts |-> OneField(GoodData, GoodPlace)],
     [kind |-> "valid",
      opts |-> Options(DataName, FormatRange(Sheet1, 7, 5, 5, 2, FALSE),
                       <<PivotTableField("Year", <<>>, <<>>, FALSE)>>, <<>>, <<>>,
                       <<PivotTableField("Month", <<>>, <<"C", "O", "U", "N", "T">>, FALSE),
                         PivotTableField("Type", <<>>, <<>>, FALSE)>>)]}

\* Requests the validation must reject, with the reason each is invalid.
InvalidInputs ==
    {[kind |-> "nil", opts |-> NilOpts],
     [kind |-> "emptyPivotTableRange", opts |-> OneField(GoodData, <<>>)],
     [kind |-> "malformedPivotTableRange",
      opts |-> OneField(GoodData, Remove(GoodPlace, "!"))],
     [kind |-> "malformedPivotTableRange",
      opts |-> OneField(GoodData, Sheet2 \o <<"!">> \o GoodPlace)],
     [kind |-> "malformedPivotTableRange",
      opts |-> OneField(GoodData, Remove(GoodPlace, ":"))],
     [kind |-> "malformedPivotTableRange",
      opts |-> OneField(GoodData, Sheet2 \o <<"!", "A", ":", "B">>)],
     [kind |-> "degeneratePivotTableRange",
      opts |-> OneField(GoodData, FormatRange(Sheet2, 3, 1, 3, 1, TRUE))],
     [kind |-> "emptyDataRange", opts |-> OneField(<<>>, GoodPlace)],
     [kind |-> "malformedDataRange", opts |-> OneField(Remove(GoodData, "!"), GoodPlace)],
     [kind |-> "malformedDataRange",
      opts |-> OneField(Sheet1 \o <<"!", "1", "A", ":", "C", "3">>, GoodPlace)],
     [kind |-> "degenerateDataRange",
      opts |-> OneField(FormatRange(Sheet1, 2, 2, 2, 2, FALSE), GoodPlace)],
     [kind |-> "dataSheetAbsent",
      opts |-> OneField(FormatRange(Sheet9, 1, 1, 3, 3, TRUE), GoodPlace)],
     [kind |-> "placementSheetAbsent",
      opts |-> OneField(GoodData, FormatRange(Sheet9, 5, 2, 7, 5, TRUE))]}

Inputs == ValidInputs \cup InvalidInputs

-----------------------------------------------------------------------------
(* Sequential calls on one document. *)

Init == DocInit(InitialDocs)

Next ==
    \/ \E in \in Inputs : Call(1, in)
    \/ Count(1)
    \/ AddPivotCache(1)
    \/ AddWorkbookRels(1)
    \/ ReadWorkbookPivotCache(1)
    \/ AppendWorkbookPivotCache(1)
    \/ WritePivotTable(1)
    \/ Link(1)

Spec == Init /\ [][Next]_vars

(* Concurrent calls on one document, with no lock around them. *)

ConcInit == DocInit({Fresh, ExistingDoc(<<[n |-> 1, cache |-> 1]>>, <<[n |-> 1, id |-> 1]>>)})

\* The invocations differ in nothing but their timing.
ConcInputs == {in \in ValidInputs : in.opts.DataRange = GoodData}

ConcNext ==
    \E p \in Procs :
        \/ \E in \in ConcInputs : Call(p, in)
        \/ Count(p)
        \/ AddPivotCache(p)
        \/ AddWorkbookRels(p)
        \/ ReadWorkbookPivotCache(p)
        \/ AppendWorkbookPivotCache(p)
        \/ WritePivotTable(p)
        \/ Link(p)

SpecConc == ConcInit /\ [][ConcNext]_vars

(* One call on a new workbook, over field lists of bounded total length.  *)
(* "Zip" names no header cell of the data range.                          *)

FieldNames == {"Month", "Year", "Zip"}

\* The display names tell the list and the source name of an entry apart.
Initial(n) ==
    CASE n = "Month" -> <<"M">>
      [] n = "Year" -> <<"Y">>
      [] n = "Zip" -> <<"Z">>

RowsPool ==
    {PivotTableField(n, <<"R", "o", "w", " ">> \o Initial(n), <<>>, d) :
         n \in FieldNames, d \in BOOLEAN}

FilterPool ==
    {PivotTableField(n, <<"P", "a", "g", "e", " ">> \o Initial(n), <<>>, FALSE) :
         n \in FieldNames}

ColumnsPool ==
    {PivotTableField(n, <<"C", "o", "l", " ">> \o Initial(n), <<>>, d) :
         n \in FieldNames, d \in BOOLEAN}

DataPool ==
    {PivotTableField(n, <<"D", "a", "t", "a", " ">> \o Initial(n),
                     IF n = "Month" THEN <<"C", "O", "U", "N", "T">>
                     ELSE IF n = "Zip" THEN <<"m", "a", "x">> ELSE <<>>, FALSE) :
         n \in FieldNames}

FieldsInit == DocInit({Fresh})

CallFields ==
    /\ proc[1].pc = "idle"
    /\ \E rows \in SeqsUpTo(RowsPool, MaxEntries) :
       \E filter \in SeqsUpTo(FilterPool, MaxEntries - Len(rows)) :
       \E columns \in SeqsUpTo(ColumnsPool, MaxEntries - Len(rows) - Len(filter)) :
       \E data \in SeqsUpTo(DataPool,
                            MaxEntries - Len(rows) - Len(filter) - Len(columns)) :
           Call(1, [kind |-> "valid",
                    opts |-> Options(GoodData, GoodPlace, rows, filter, columns, data)])

FieldsNext ==
    \/ CallFields
    \/ Count(1)
    \/ AddPivotCache(1)
    \/ AddWorkbookRels(1)
    \/ ReadWorkbookPivotCache(1)
    \/ AppendWorkbookPivotCache(1)
    \/ WritePivotTable(1)
    \/ Link(1)

SpecFields == FieldsInit /\ [][FieldsNext]_vars

-----------------------------------------------------------------------------
(* Specifications of the pure functions. *)

RangeNext == \E o \in Orderings : ApplyAdjustRange(o)

SpecRange == RangeInit /\ [][RangeNext]_vars

SubtotalNext == ApplySubtotal

SpecSubtotal == SubtotalInit /\ [][SubtotalNext]_vars

-----------------------------------------------------------------------------
(* Claims. *)

\* C8 as stated: for every sheet name and every pair of distinct cells,
\* adjustRange on each of the four corner orderings of the same rectangle
\* returns the same sheet name and the same box <<x1, y1, x2, y2>> with
\* x1 <= x2 and y1 <= y2.
C8_EverySheetName ==
    LET b == rangeTest.box
    IN  (b.xa # b.xb \/ b.ya # b.yb) =>
            \A o \in Orderings :
                rangeTest.out[o] # Pending =>
                    /\ rangeTest.out[o].err = None
                    /\ rangeTest.out[o].sheet = b.sheet
                    /\ rangeTest.out[o].coordinates =
                           <<Min(b.xa, b.xb), Min(b.ya, b.yb),
                             Max(b.xa, b.xb), Max(b.ya, b.yb)>>

\* C8: for every sheet name holding no "!" and every pair of distinct cells,
\* adjustRange on each of the four corner orderings of the same rectangle
\* returns the same sheet name and the same box <<x1, y1, x2, y2>> with
\* x1 <= x2 and y1 <= y2, the column pair and the row pair ordered
\* independently of each other; for a sheet name holding "!" each of the four
\* orderings returns ErrParameterInvalid and no box.
C8_SwapInvariant ==
    LET b == rangeTest.box
    IN  (b.xa # b.xb \/ b.ya # b.yb) =>
            \A o \in Orderings :
                rangeTest.out[o] # Pending =>
                    IF IndexOf(b.sheet, "!") = 0
                    THEN /\ rangeTest.out[o].err = None
                         /\ rangeTest.out[o].sheet = b.sheet
                         /\ rangeTest.out[o].coordinates =
                                <<Min(b.xa, b.xb), Min(b.ya, b.yb),
                                  Max(b.xa, b.xb), Max(b.ya, b.yb)>>
                    ELSE /\ rangeTest.out[o].err = ErrParameterInvalid
                         /\ rangeTest.out[o].coordinates = <<>>

\* C8 witness: a box whose corners are reversed on one axis only has been
\* normalised in all four orderings.
C8_Witness ==
    /\ IndexOf(rangeTest.box.sheet, "!") = 0
    /\ rangeTest.box.xa > rangeTest.box.xb
    /\ rangeTest.box.ya < rangeTest.box.yb
    /\ \A o \in Orderings : rangeTest.out[o].err = None

\* C9: the output of getPivotTableFieldsSubtotal has the length and order of
\* the Data list; each entry is the canonical spelling of the member that
\* equals the input ignoring case, or "sum" when the input is empty or matches
\* no member; every entry is a member of the enumeration.
C9_SubtotalNormalised ==
    subtotalTest.done =>
        /\ DOMAIN subtotalTest.out = DOMAIN subtotalTest.in
        /\ \A i \in DOMAIN subtotalTest.in :
            /\ subtotalTest.out[i] \in Members
            /\ subtotalTest.out[i] =
                   IF subtotalTest.in[i].member # <<>>
                   THEN subtotalTest.in[i].member ELSE Sum
            /\ (\E m \in Members : ToLower(m) = ToLower(subtotalTest.in[i].text))
                   => ToLower(subtotalTest.out[i]) = ToLower(subtotalTest.in[i].text)

\* C9 witness: a two-entry list holding an upper-case member spelling and a
\* spelling of no member has been normalised.
C9_Witness ==
    /\ subtotalTest.done
    /\ Len(subtotalTest.in) = 2
    /\ subtotalTest.in[1].member # <<>>
    /\ subtotalTest.in[1].member # Sum
    /\ subtotalTest.in[1].text # subtotalTest.in[1].member
    /\ subtotalTest.in[2].member = <<>>
    /\ subtotalTest.in[2].text # <<>>

-----------------------------------------------------------------------------
(* Vocabulary of the document-level claims. *)

TableParts(names) == {k \in names : k[1] = PivotTablePrefix}

CacheParts(names) == {k \in names : k[1] = PivotCachePrefix}

Succeeded(p) == proc[p].pc = "done" /\ proc[p].err = NilErr

OpenedFresh ==
    TableParts(DOMAIN opened.Pkg) = {} /\ CacheParts(DOMAIN opened.Pkg) = {}

CacheIDs(pivotCaches) == {pivotCaches[i].CacheID : i \in DOMAIN pivotCaches}

\* C4: a call whose options are nil, whose data or placement range is empty,
\* malformed or degenerate, or whose data or placement sheet is absent returns
\* an error from validation, and the parts, relationships, content types and
\* registry are then exactly those the call found.
C4_ValidationLeavesDocument ==
    \A p \in Procs :
        proc[p].pc = "done" =>
            /\ proc[p].kind # "valid" =>
                   proc[p].err # NilErr /\ proc[p].errAt = "validation"
            /\ proc[p].errAt = "validation" => Doc = proc[p].doc0

\* C4 witness: after one table has been written, a call naming an absent
\* placement sheet has returned its error.
C4_Witness ==
    /\ Len(hist) = 1
    /\ proc[1].pc = "done"
    /\ proc[1].kind = "placementSheetAbsent"
    /\ proc[1].err # NilErr
    /\ TableParts(DOMAIN Pkg) # {}

\* C5: the pivot-table and cache-definition sequence numbers of a call are the
\* numbers of parts with the respective prefix in the package the call found,
\* plus one; in a document opened without pivot parts the k-th successful
\* call writes pivotTable<k>.xml and pivotCacheDefinition<k>.xml and replaces
\* no existing part.
C5_CountBasedSequence ==
    /\ \A p \in Procs :
           proc[p].pc \in {"addPivotCache", "addWorkbookRels", "readWorkbookPivotCache",
                           "appendWorkbookPivotCache", "writePivotTable", "link"}
           \/ Succeeded(p)
           => /\ proc[p].pivotTableID =
                     Cardinality(TableParts(DOMAIN proc[p].doc0.Pkg)) + 1
              /\ proc[p].pivotCacheID =
                     Cardinality(CacheParts(DOMAIN proc[p].doc0.Pkg)) + 1
    /\ OpenedFresh =>
           \A k \in DOMAIN hist :
               /\ hist[k].pivotTableID = k
               /\ hist[k].pivotCacheID = k
               /\ ~hist[k].overwrote
               /\ <<PivotTablePrefix, Itoa(k), ".xml">> \in DOMAIN Pkg
               /\ <<PivotCachePrefix, Itoa(k), ".xml">> \in DOMAIN Pkg

\* C5 witness: two calls have succeeded on a document opened without pivot
\* parts.
C5_Witness ==
    /\ OpenedFresh
    /\ Len(hist) = 2
    /\ Cardinality(TableParts(DOMAIN Pkg)) = 2

\* C6 as stated: for every non-empty registry of non-negative IDs the new
\* CacheID is the maximum existing CacheID plus one.
C6_MaxPlusOne ==
    \A p \in Procs :
        proc[p].pc = "writePivotTable" /\ proc[p].regSeen # <<>> =>
            proc[p].cacheID = SetMax(CacheIDs(proc[p].regSeen)) + 1

\* C6: registering a cache appends exactly one entry and leaves the existing
\* entries unchanged; the new CacheID, which is also the value returned, is
\* the maximum existing CacheID plus one when that maximum is at least 1, and
\* 2 when every existing CacheID is 0; it differs from every existing CacheID.
C6_RegistryAppend ==
    \A p \in Procs :
        proc[p].pc = "writePivotTable" /\ proc[p].regSeen # <<>> =>
            /\ Len(PivotCaches) = Len(proc[p].regSeen) + 1
            /\ SubSeq(PivotCaches, 1, Len(proc[p].regSeen)) = proc[p].regSeen
            /\ PivotCaches[Len(PivotCaches)].CacheID = proc[p].cacheID
            /\ proc[p].cacheID =
                   IF SetMax(CacheIDs(proc[p].regSeen)) >= 1
                   THEN SetMax(CacheIDs(proc[p].regSeen)) + 1
                   ELSE 2
            /\ proc[p].cacheID \notin CacheIDs(proc[p].regSeen)

\* C6 witness: an entry has been appended to a registry of two entries whose
\* highest CacheID is at least 1.
C6_Witness ==
    /\ proc[1].pc = "writePivotTable"
    /\ Len(proc[1].regSeen) = 2
    /\ SetMax(CacheIDs(proc[1].regSeen)) >= 1
    /\ Len(PivotCaches) = 3

\* C10: in a document opened without pivot parts and modified by sequential
\* successful calls, for every persisted pivot-table definition exactly one
\* registry entry carries its CacheID, the RID of that entry names a workbook
\* relationship whose target is /xl/pivotCache/pivotCacheDefinition<n>.xml,
\* the table's own relationship part targets
\* ../pivotCache/pivotCacheDefinition<n>.xml for the same n, and no two
\* definitions share a registry ID.
C10_CrossReferences ==
    OpenedFresh =>
        /\ \A t \in TableParts(DOMAIN Pkg) :
               \E i \in DOMAIN PivotCaches :
                   /\ PivotCaches[i].CacheID = Pkg[t].CacheID
                   /\ \A j \in DOMAIN PivotCaches :
                          PivotCaches[j].CacheID = Pkg[t].CacheID => j = i
                   /\ \E r \in DOMAIN Relationships[WorkbookRelsPath] :
                          LET rel == Relationships[WorkbookRelsPath][r]
                              own == <<"xl/pivotTables/_rels/pivotTable", t[2],
                                       ".xml.rels">>
                          IN  /\ rel.ID = PivotCaches[i].RID
                              /\ \A q \in DOMAIN Relationships[WorkbookRelsPath] :
                                     Relationships[WorkbookRelsPath][q].ID = rel.ID
                                         => q = r
                              /\ rel.Target[1] = "/xl/pivotCache/pivotCacheDefinition"
                              /\ rel.Target[3] = ".xml"
                              /\ <<PivotCachePrefix, rel.Target[2], ".xml">>
                                     \in DOMAIN Pkg
                              /\ own \in DOMAIN Relationships
                              /\ Len(Relationships[own]) = 1
                              /\ Relationships[own][1].Target =
                                     <<"../pivotCache/pivotCacheDefinition",
                                       rel.Target[2], ".xml">>
        /\ \A t, u \in TableParts(DOMAIN Pkg) :
               t # u => Pkg[t].CacheID # Pkg[u].CacheID

\* C10 witness: two tables have been written into a document opened without
\* pivot parts.
C10_Witness ==
    /\ OpenedFresh
    /\ Cardinality(TableParts(DOMAIN Pkg)) = 2
    /\ Len(PivotCaches) = 2
    /\ proc[1].pc = "done"

\* The two invocations counted the same package and scanned the same registry.
Raced(p, q) ==
    /\ p # q
    /\ Succeeded(p) /\ Succeeded(q)
    /\ proc[p].pkgSeen = proc[q].pkgSeen
    /\ proc[p].regSeen = proc[q].regSeen

\* C7: when two concurrent invocations both read the part counts and the
\* registry maximum before either writes, both obtain the same pivot-table
\* number, the same cache number and the same registry ID; the later write
\* replaces the earlier part and the registry holds two entries with one
\* CacheID.  Such an interleaving is reachable.
C7_ConcurrentAllocation ==
    \A p, q \in Procs :
        Raced(p, q) =>
            /\ proc[p].pivotTableID = proc[q].pivotTableID
            /\ proc[p].pivotCacheID = proc[q].pivotCacheID
            /\ proc[p].cacheID = proc[q].cacheID
            /\ proc[p].overwrote \/ proc[q].overwrote
            /\ Cardinality(TableParts(DOMAIN Pkg)) =
                   Cardinality(TableParts(proc[p].pkgSeen)) + 1
            /\ Cardinality(CacheParts(DOMAIN Pkg)) =
                   Cardinality(CacheParts(proc[p].pkgSeen)) + 1
            /\ Cardinality({i \in DOMAIN PivotCaches :
                               PivotCaches[i].CacheID = proc[p].cacheID}) = 2

\* C7 witness: both invocations have succeeded after counting the same
\* package and scanning the same registry, and the registry repeats a CacheID.
C7_Witness ==
    /\ Raced(1, 2)
    /\ proc[1].pivotTableID = proc[2].pivotTableID
    /\ \E i, j \in DOMAIN PivotCaches :
           i # j /\ PivotCaches[i].CacheID = PivotCaches[j].CacheID

-----------------------------------------------------------------------------
(* Vocabulary of the field-level claims: what a successful call persisted, *)
(* and the classification of a header name as the claims word it.          *)

TableOf(p) == Pkg[<<PivotTablePrefix, Itoa(proc[p].pivotTableID), ".xml">>]

CacheOf(p) == Pkg[<<PivotCachePrefix, Itoa(proc[p].pivotCacheID), ".xml">>]

HeaderOf(p) ==
    [i \in DOMAIN CacheOf(p).CacheFields.CacheField |->
        CacheOf(p).CacheFields.CacheField[i].Name]

Declares(list, name) == \E i \in DOMAIN list : list[i].Data = name

FirstNamed(list, name) ==
    list[CHOOSE i \in DOMAIN list :
             list[i].Data = name /\ \A j \in 1..(i - 1) : list[j].Data # name]

Classified(opts, name) ==
    IF Declares(opts.Rows, name) THEN "axisRow"
    ELSE IF Declares(opts.Filter, name) THEN "axisPage"
    ELSE IF Declares(opts.Columns, name) THEN "axisCol"
    ELSE ""

\* The zero-based header positions of the entries of list that name a header
\* cell, in declaration order.
DeclaredIndices(list, header) ==
    LET InHeader(e) == \E k \in DOMAIN header : header[k] = e.Data
        named == SelectSeq(list, InHeader)
    IN  [i \in DOMAIN named |->
            [X |-> (CHOOSE k \in DOMAIN header : header[k] = named[i].Data) - 1]]

\* C1: the table holds exactly one PivotField per header name; its axis is Row
\* if the name is in Rows, else Page if it is in Filter, else Col if it is in
\* Columns, else none, and a field without axis is a data field exactly when
\* the name is in Data and is otherwise empty.
C1_ClassificationPrecedence ==
    \A p \in Procs :
        Succeeded(p) =>
            LET holds(opts, header, fields) ==
                    /\ fields.Count = Len(header)
                    /\ Len(fields.PivotField) = Len(header)
                    /\ \A i \in DOMAIN header :
                           /\ fields.PivotField[i].Axis = Classified(opts, header[i])
                           /\ Classified(opts, header[i]) = "" =>
                                  fields.PivotField[i] =
                                      [EmptyPivotField EXCEPT
                                           !.DataField = Declares(opts.Data, header[i])]
            IN  holds(proc[p].opts, HeaderOf(p), TableOf(p).PivotFields)

\* C1 witness: a table was built for a header name declared in Rows, Filter
\* and Columns at once.
C1_Witness ==
    /\ Succeeded(1)
    /\ \E n \in {"Month", "Year"} :
           /\ Declares(proc[1].opts.Rows, n)
           /\ Declares(proc[1].opts.Filter, n)
           /\ Declares(proc[1].opts.Columns, n)

\* C2: with no Columns and at most one Data field no column-field list is
\* emitted; with no Columns and more than one Data field the list is the
\* single entry -2; with Columns and more than one Data field it is the
\* declared columns' indices followed by one -2; with Columns and at most one
\* Data field it holds no -2; the count is always the length of the list.
C2_ColumnFieldSynthesis ==
    \A p \in Procs :
        Succeeded(p) =>
            LET holds(opts, cf, declared) ==
                    /\ Len(opts.Columns) = 0 /\ Len(opts.Data) <= 1 => ~cf.present
                    /\ Len(opts.Columns) = 0 /\ Len(opts.Data) > 1 =>
                           cf.present /\ cf.Field = <<[X |-> -2]>>
                    /\ Len(opts.Columns) > 0 /\ Len(opts.Data) > 1 =>
                           cf.present /\ cf.Field = declared \o <<[X |-> -2]>>
                    /\ Len(opts.Columns) > 0 /\ Len(opts.Data) <= 1 =>
                           /\ cf.present
                           /\ cf.Field = declared
                           /\ \A i \in DOMAIN cf.Field : cf.Field[i].X # -2
                    /\ cf.Count = Len(cf.Field)
            IN  holds(proc[p].opts, TableOf(p).ColFields,
                      DeclaredIndices(proc[p].opts.Columns, HeaderOf(p)))

\* C2 witness: a table was built from one declared column and two Data fields.
C2_Witness ==
    /\ Succeeded(1)
    /\ Len(proc[1].opts.Columns) = 1
    /\ Declares(proc[1].opts.Columns, "Year")
    /\ Len(proc[1].opts.Data) = 2
    /\ TableOf(1).ColFields.Count = 2

\* C3 as stated: the sharedItems count of a header field's CacheField is 1
\* exactly when the field is classified as a Row or Column field and the
\* option record of that axis has DefaultSubtotal = false, and 0 otherwise.
C3_SharedItemsFollowClassification ==
    \A p \in Procs :
        Succeeded(p) =>
            LET expected(opts, name) ==
                    IF Classified(opts, name) = "axisRow"
                    THEN IF FirstNamed(opts.Rows, name).DefaultSubtotal THEN 0 ELSE 1
                    ELSE IF Classified(opts, name) = "axisCol"
                    THEN IF FirstNamed(opts.Columns, name).DefaultSubtotal THEN 0 ELSE 1
                    ELSE 0
            IN  \A i \in DOMAIN HeaderOf(p) :
                    CacheOf(p).CacheFields.CacheField[i].SharedItems.Count =
                        expected(proc[p].opts, HeaderOf(p)[i])

\* The zero-based header position of name, a name of the header.
PositionOf(header, name) == (CHOOSE k \in DOMAIN header : header[k] = name) - 1

\* The enumeration member spelt by subtotal whatever its case, else "sum".
Normalized(subtotal) ==
    IF \E m \in Members : ToLower(m) = ToLower(subtotal)
    THEN CHOOSE m \in Members : ToLower(m) = ToLower(subtotal)
    ELSE Sum

\* The first MaxFieldLength characters of a display name.
Truncated(name) == SubSeq(name, 1, Min(Len(name), MaxFieldLength))

\* C11 as stated: each emitted DataField whose Fld is the header position of
\* source name N carries the display name and the normalized subtotal of the
\* Data entry whose Data is N, and each emitted PageField whose Fld is the
\* header position of N carries the display name of the Filter entry whose
\* Data is N, also when some declared names are absent from the header.
C11_EntriesStayPaired ==
    \A p \in Procs :
        Succeeded(p) =>
            LET paired(opts, header, df, pf) ==
                    /\ \A j \in DOMAIN df.Field :
                           \E n \in {header[k] : k \in DOMAIN header} :
                               /\ df.Field[j].Fld = PositionOf(header, n)
                               /\ Declares(opts.Data, n)
                               /\ df.Field[j].Name =
                                      Truncated(FirstNamed(opts.Data, n).Name)
                               /\ df.Field[j].Subtotal =
                                      Normalized(FirstNamed(opts.Data, n).Subtotal)
                    /\ \A j \in DOMAIN pf.Field :
                           \E n \in {header[k] : k \in DOMAIN header} :
                               /\ pf.Field[j].Fld = PositionOf(header, n)
                               /\ Declares(opts.Filter, n)
                               /\ pf.Field[j].Name =
                                      Truncated(FirstNamed(opts.Filter, n).Name)
            IN  paired(proc[p].opts, HeaderOf(p), TableOf(p).DataFields,
                       TableOf(p).PageFields)

\* C12 as stated: in every table definition every index in RowFields refers
\* to a PivotField with axis Row, every Fld in PageFields to one with axis
\* Page, every index in ColFields other than -2 to one with axis Col, and
\* every Fld in DataFields to one whose data-field flag is true; all these
\* indices lie in 0..len(PivotFields)-1, also when a name is declared in more
\* than one of Rows, Filter and Columns.
C12_AxisListsAgree ==
    \A p \in Procs :
        Succeeded(p) =>
            LET agree(pt, n) ==
                    LET field(x) == pt.PivotFields.PivotField[x + 1]
                    IN  /\ \A j \in DOMAIN pt.RowFields.Field :
                               /\ pt.RowFields.Field[j].X \in 0..(n - 1)
                               /\ field(pt.RowFields.Field[j].X).Axis = "axisRow"
                        /\ \A j \in DOMAIN pt.PageFields.Field :
                               /\ pt.PageFields.Field[j].Fld \in 0..(n - 1)
                               /\ field(pt.PageFields.Field[j].Fld).Axis = "axisPage"
                        /\ \A j \in DOMAIN pt.ColFields.Field :
                               pt.ColFields.Field[j].X # -2 =>
                                   /\ pt.ColFields.Field[j].X \in 0..(n - 1)
                                   /\ field(pt.ColFields.Field[j].X).Axis = "axisCol"
                        /\ \A j \in DOMAIN pt.DataFields.Field :
                               /\ pt.DataFields.Field[j].Fld \in 0..(n - 1)
                               /\ field(pt.DataFields.Field[j].Fld).DataField
            IN  agree(TableOf(p), Len(TableOf(p).PivotFields.PivotField))

\* C13 as stated: the Name of a PivotField classified under Rows, Filter or
\* Columns is the truncated display Name of the first entry naming it in the
\* Rows, Filter or Columns list respectively.
C13_NameFromOwnAxis ==
    \A p \in Procs :
        Succeeded(p) =>
            LET own(opts, name) ==
                    IF Classified(opts, name) = "axisRow" THEN opts.Rows
                    ELSE IF Classified(opts, name) = "axisPage" THEN opts.Filter
                    ELSE opts.Columns
            IN  \A i \in DOMAIN HeaderOf(p) :
                    Classified(proc[p].opts, HeaderOf(p)[i]) # "" =>
                        TableOf(p).PivotFields.PivotField[i].Name =
                            Truncated(FirstNamed(own(proc[p].opts, HeaderOf(p)[i]),
                                                 HeaderOf(p)[i]).Name)

====
